---- MODULE Spec2Model ----
(***************************************************************************)
(* Biofouling of microplastic particles: the Kooi settling kernel and the  *)
(* Profiles kernel of SOAC_regional_Kooi+NEMO_3D_noAdvection.py, as they   *)
(* are executed per particle and per timestep by pset.execute.             *)
(*                                                                         *)
(* The kernels compute in floating point.  The model computes in a decimal *)
(* floating point of four significant digits (truncating), with the IEEE *)
(* special values NaN, +inf and -inf, so that every line of a kernel is    *)
(* one application of an arithmetic operator below.                        *)
(***************************************************************************)
EXTENDS Integers, Sequences, FiniteSets, TLC

(***************************************************************************)
(* Floating point.  A finite value is m * 10^e with m = 0 (and e = 0) or   *)
(* 1000 <= |m| <= 9999; k tells a finite value from NaN and the infinities.*)
(* Zero is unsigned: -0.0 == 0.0 compares equal in the kernels.            *)
(***************************************************************************)
Fin(m, e) == [k |-> "fin", m |-> m, e |-> e]

Zero == Fin(0, 0)

NaN == [k |-> "nan", m |-> 0, e |-> 0]

PInf == [k |-> "pinf", m |-> 0, e |-> 0]

NInf == [k |-> "ninf", m |-> 0, e |-> 0]

Pow10Int(n) == <<1, 10, 100, 1000, 10000, 100000, 1000000, 10000000, 100000000, 1000000000>>[n + 1]

AbsInt(i) == IF i < 0 THEN -i ELSE i

SignInt(i) == IF i < 0 THEN -1 ELSE IF i > 0 THEN 1 ELSE 0

NumDigits(A) ==
    IF A < 10 THEN 1 ELSE IF A < 100 THEN 2 ELSE IF A < 1000 THEN 3
    ELSE IF A < 10000 THEN 4 ELSE IF A < 100000 THEN 5 ELSE IF A < 1000000 THEN 6
    ELSE IF A < 10000000 THEN 7 ELSE IF A < 100000000 THEN 8
    ELSE IF A < 1000000000 THEN 9 ELSE 10

\* The value M * 10^e, truncated to four significant digits.
Norm(M, e) ==
    IF M = 0 THEN Zero
    ELSE LET A == AbsInt(M)
             d == NumDigits(A)
         IN  IF d > 4
             THEN Fin(SignInt(M) * (A \div Pow10Int(d - 4)), e + (d - 4))
             ELSE Fin(SignInt(M) * (A * Pow10Int(4 - d)), e - (4 - d))

\* A decimal literal of the source: Dec(14007, -3) is 14.007.
Dec(M, e) == Norm(M, e)

(***************************************************************************)
(* An operand is evaluated once, before the operation: Strict1 and Strict2 *)
(* apply an operation to the values of its operands.                       *)
(***************************************************************************)
Strict1(Op(_), x) == CHOOSE r \in {Op(a) : a \in {x}} : TRUE

Strict2(Op(_, _), x, y) == CHOOSE r \in {Op(a, b) : a \in {x}, b \in {y}} : TRUE

IsNaN(x) == x.k = "nan"

IsFin(x) == x.k = "fin"

\* -1, 0, 1 for a value that is not NaN.
Sgn(x) == IF x.k = "pinf" THEN 1 ELSE IF x.k = "ninf" THEN -1 ELSE SignInt(x.m)

FNeg_(x) ==
    CASE x.k = "fin" -> Fin(-x.m, x.e)
      [] x.k = "pinf" -> NInf
      [] x.k = "ninf" -> PInf
      [] OTHER -> NaN

FNeg(x) == Strict1(FNeg_, x)

FAbs_(x) == IF IsNaN(x) THEN NaN ELSE IF Sgn(x) < 0 THEN FNeg(x) ELSE x

FAbs(x) == Strict1(FAbs_, x)

FMul_(x, y) ==
    IF IsNaN(x) \/ IsNaN(y) THEN NaN
    ELSE IF IsFin(x) /\ IsFin(y) THEN Norm(x.m * y.m, x.e + y.e)
    ELSE IF Sgn(x) = 0 \/ Sgn(y) = 0 THEN NaN          \* inf * 0
    ELSE IF Sgn(x) = Sgn(y) THEN PInf ELSE NInf

FMul(x, y) == Strict2(FMul_, x, y)

FDiv_(x, y) ==
    IF IsNaN(x) \/ IsNaN(y) THEN NaN
    ELSE IF ~IsFin(x) THEN
        IF ~IsFin(y) THEN NaN                           \* inf / inf
        ELSE IF (Sgn(x) > 0) = (Sgn(y) >= 0) THEN PInf ELSE NInf
    ELSE IF ~IsFin(y) THEN Zero                         \* x / inf
    ELSE IF y.m = 0 THEN                                \* division by zero
        IF x.m = 0 THEN NaN ELSE IF x.m > 0 THEN PInf ELSE NInf
    ELSE IF x.m = 0 THEN Zero
    ELSE Norm(SignInt(x.m) * SignInt(y.m) * ((AbsInt(x.m) * 100000) \div AbsInt(y.m)),
              x.e - y.e - 5)

FDiv(x, y) == Strict2(FDiv_, x, y)

FAdd_(x, y) ==
    IF IsNaN(x) \/ IsNaN(y) THEN NaN
    ELSE IF ~IsFin(x) THEN
        IF ~IsFin(y) /\ x.k # y.k THEN NaN ELSE x       \* inf + -inf
    ELSE IF ~IsFin(y) THEN y
    ELSE IF x.m = 0 THEN y
    ELSE IF y.m = 0 THEN x
    ELSE LET hi == IF x.e >= y.e THEN x ELSE y
             lo == IF x.e >= y.e THEN y ELSE x
             d  == hi.e - lo.e
         IN  IF d > 5 THEN hi ELSE Norm(hi.m * Pow10Int(d) + lo.m, lo.e)

FAdd(x, y) == Strict2(FAdd_, x, y)

FSub(x, y) == FAdd(x, FNeg(y))

\* Comparisons: every comparison with NaN is false.
FLt_(x, y) ==
    /\ ~IsNaN(x)
    /\ ~IsNaN(y)
    /\ \/ x.k = "ninf" /\ y.k # "ninf"
       \/ y.k = "pinf" /\ x.k # "pinf"
       \/ IsFin(x) /\ IsFin(y) /\ FSub(x, y).m < 0

FLt(x, y) == Strict2(FLt_, x, y)

FLe_(x, y) == ~IsNaN(x) /\ ~IsNaN(y) /\ ~FLt(y, x)

FLe(x, y) == Strict2(FLe_, x, y)

FGt(x, y) == FLt(y, x)

FGe(x, y) == FLe(y, x)

FEq_(x, y) == ~IsNaN(x) /\ ~IsNaN(y) /\ x = y

FEq(x, y) == Strict2(FEq_, x, y)

\* x**2., x**3., x**4.
FPow2_(x) == FMul(x, x)

FPow2(x) == Strict1(FPow2_, x)

FPow3_(x) == FMul(FMul(x, x), x)

FPow3(x) == Strict1(FPow3_, x)

FPow4_(x) == FMul(FMul(x, x), FMul(x, x))

FPow4(x) == Strict1(FPow4_, x)

\* r^3 <= NH * 10^4, for 1000 <= r <= 9999, in two limbs of four digits.
CubeLe(r, NH) ==
    LET A  == r * r
        T  == (A % 10000) * r
        H  == (A \div 10000) * r + (T \div 10000)
        L  == T % 10000
    IN  H < NH \/ (H = NH /\ L = 0)

RECURSIVE CbrtSearch(_, _, _)
\* The largest r in lo .. hi - 1 with r^3 <= NH * 10^4 (lo qualifies, hi does not).
CbrtSearch(lo, hi, NH) ==
    IF hi - lo <= 1 THEN lo
    ELSE CHOOSE r \in {IF CubeLe(mid, NH) THEN CbrtSearch(mid, hi, NH)
                                           ELSE CbrtSearch(lo, mid, NH) :
                        mid \in {(lo + hi) \div 2}} : TRUE

\* x**(1./3.): the cube root, exact on a cube; NaN for a negative base, as pow gives.
FCbrt_(x) ==
    CASE IsNaN(x) -> NaN
      [] x.k = "pinf" -> PInf
      [] x.k = "ninf" -> PInf
      [] OTHER ->
            IF x.m = 0 THEN Zero
            ELSE IF x.m < 0 THEN NaN
            ELSE LET j == x.e % 3
                 IN  Fin(CbrtSearch(1000, 10000, x.m * Pow10Int(j + 2)), ((x.e - j) \div 3) - 2)

FCbrt(x) == Strict1(FCbrt_, x)

Pow2Int(n) == <<1, 2, 4, 8, 16, 32, 64, 128, 256, 512, 1024>>[n + 1]

\* 10^(1/2), 10^(1/4), ..., 10^(1/1024)
Root10 ==
    << Fin(3162, -3), Fin(1778, -3), Fin(1334, -3), Fin(1155, -3), Fin(1075, -3),
       Fin(1037, -3), Fin(1018, -3), Fin(1009, -3), Fin(1005, -3), Fin(1002, -3) >>

\* The number of binary digits the logarithm and the exponential are computed to.
LogBits == Len(Root10)

RECURSIVE Log10Bits(_, _, _)
\* log10(u / 1000) * 2^LogBits for 1000 <= u < 10000, by repeated squaring:
\* the binary digits i .. LogBits of the logarithm, added to acc.
Log10Bits(u, i, acc) ==
    IF i > LogBits THEN acc
    ELSE CHOOSE r \in {IF sq >= 10000
                        THEN Log10Bits(sq \div 10, i + 1, acc + Pow2Int(LogBits - i))
                        ELSE Log10Bits(sq, i + 1, acc) :
                        sq \in {(u * u) \div 1000}} : TRUE

\* math.log10(x); the kernel calls it for 0.05 <= x <= 5e9 or NaN only.
FLog10_(x) ==
    CASE IsNaN(x) -> NaN
      [] x.k = "pinf" -> PInf
      [] x.k = "ninf" -> NaN
      [] OTHER ->
            IF x.m = 0 THEN NInf
            ELSE IF x.m < 0 THEN NaN
            ELSE FAdd(Norm(x.e + 3, 0),
                      FDiv(Norm(Log10Bits(x.m, 1, 0), 0), Norm(Pow2Int(LogBits), 0)))

FLog10(x) == Strict1(FLog10_, x)

RECURSIVE Exp10Frac(_, _, _)
\* acc * 10^(f / 2^LogBits), the binary digits i .. LogBits of f.
Exp10Frac(f, i, acc) ==
    IF i > LogBits THEN acc
    ELSE IF (f \div Pow2Int(LogBits - i)) % 2 = 1
         THEN Exp10Frac(f, i + 1, FMul(acc, Root10[i]))
         ELSE Exp10Frac(f, i + 1, acc)

\* 10^y for a finite y: 10^floor(y) * 10^(y - floor(y)).
Exp10(y) ==
    IF y.m = 0 THEN Fin(1000, -3)
    ELSE IF y.e > 4 THEN (IF y.m > 0 THEN PInf ELSE Zero)
    ELSE IF y.e >= 0 THEN Fin(1000, y.m * Pow10Int(y.e) - 3)
    ELSE IF y.e < -9 THEN Fin(1000, -3)
    ELSE LET p == Pow10Int(-y.e)
             i == y.m \div p                            \* floor(y)
             f == IF y.e >= -4
                  THEN ((y.m % p) * Pow2Int(LogBits)) \div p
                  ELSE IF y.m > 0
                  THEN (y.m * Pow2Int(LogBits)) \div p
                  ELSE Pow2Int(LogBits) - 1 - ((-y.m * Pow2Int(LogBits)) \div p)
             r == Exp10Frac(f, 1, Fin(1000, -3))
         IN  Fin(r.m, r.e + i)

\* 10.**t
FExp10(t) ==
    CASE IsNaN(t) -> NaN
      [] t.k = "pinf" -> PInf
      [] t.k = "ninf" -> Zero
      [] OTHER -> Exp10(t)

\* b**y for a base b > 0, as 10^(y * log10(b)).
FPow(b, y) == Strict1(FExp10, FMul(y, FLog10(b)))

(***************************************************************************)
(* The constants of the fieldset (fieldset.add_constant) and of the Kooi   *)
(* kernel.                                                                 *)
(***************************************************************************)
M_a == FDiv(Dec(39, -2), Dec(86400, 0))

K == FDiv(Dec(10306, -17), FPow2(Dec(86400, 0)))

Rho_bf == Dec(1388, 0)

V_a == Dec(20, -17)

R20 == FDiv(Dec(1, -1), Dec(86400, 0))

Q10 == Dec(2, 0)

Gamma == FDiv(Dec(1728, 2), Dec(86400, 0))

Wt_N == Dec(14007, -3)

G == FDiv(Dec(732, 8), FPow2(Dec(86400, 0)))

med_N2cell == Dec(35604, -11)

\* math.pi, to the one digit at which (4/3)*pi*(3/(4*pi)) is exactly 1 in the
\* model's arithmetic, as it is in the kernel's: pi is a positive factor in
\* every place it is used.
Pi == Dec(3, 0)

\* (4./3.)*math.pi, the division last
FourThirdsPi == FDiv(FMul(Dec(4, 0), Pi), Dec(3, 0))

\* NEMO's surface depth and the depth of the floor, in the depth test of Kooi
SurfaceDepth == Dec(6, -1)

FloorDepth == Dec(4000, 0)

(***************************************************************************)
(* The Kooi kernel, in the order of its lines.                             *)
(***************************************************************************)
\* aa: the ambient algal concentration [no. m-3]
AmbientAlgae(nd_phy, d_phy) ==
    LET n0 == FAdd(nd_phy, d_phy)
        n  == FMul(n0, Wt_N)
        n2 == FDiv(n, med_N2cell)
    IN  IF FLt(n2, Zero) THEN Zero ELSE n2

\* mu_aa: the algal growth rate [s-1]
GrowthRate(tpp3, aa) ==
    LET tpp0  == tpp3
        mu_n0 == FMul(tpp0, Wt_N)
        mu_n  == FDiv(mu_n0, med_N2cell)
        mu_n2 == FDiv(mu_n, aa)
    IN  IF FLt(mu_n2, Zero) THEN Zero ELSE FDiv(mu_n2, Dec(86400, 0))

\* theta_pl: the surface area of the plastic particle [m2]
SurfaceArea(r) == FMul(FMul(Dec(4, 0), Pi), FPow2(r))

\* r_a: the radius of an algal cell [m]
AlgaRadius == FCbrt(FMul(FDiv(Dec(3, 0), Dec(4, 0)), FDiv(V_a, Pi)))

\* t_bf: the biofilm thickness [m]
BiofilmThickness(r_pl, a) ==
    LET v_pl     == FMul(FourThirdsPi, FPow3(r_pl))
        theta_pl == SurfaceArea(r_pl)
        v_bf     == FMul(FMul(V_a, a), theta_pl)
        v_tot    == FAdd(v_bf, v_pl)
    IN  FSub(FCbrt(FMul(v_tot, FDiv(Dec(3, 0), FMul(Dec(4, 0), Pi)))), r_pl)

\* rho_tot: the density of plastic and biofilm together [kg m-3]
TotalDensity(r_pl, rho_pl, t_bf) ==
    FDiv(FAdd(FMul(FPow3(r_pl), rho_pl),
              FMul(FSub(FPow3(FAdd(r_pl, t_bf)), FPow3(r_pl)), Rho_bf)),
         FPow3(FAdd(r_pl, t_bf)))

\* beta_a: the collision rate [m3 s-1]; vs is the settling velocity the
\* particle holds at the entry of the step
EncounterRate(t, sw_visc, r_tot, vs) ==
    LET r_a         == AlgaRadius
        d_pl        == FDiv(FMul(K, FAdd(t, Dec(27316, -2))),
                            FMul(FMul(FMul(Dec(6, 0), Pi), sw_visc), r_tot))
        d_a         == FDiv(FMul(K, FAdd(t, Dec(27316, -2))),
                            FMul(FMul(FMul(Dec(6, 0), Pi), sw_visc), r_a))
        beta_abrown == FMul(FMul(FMul(Dec(4, 0), Pi), FAdd(d_pl, d_a)), FAdd(r_tot, r_a))
        beta_ashear == FMul(FMul(Dec(13, -1), Gamma), FPow3(FAdd(r_tot, r_a)))
        beta_aset   == FMul(FMul(FMul(FDiv(Dec(1, 0), Dec(2, 0)), Pi), FPow2(r_tot)), FAbs(vs))
    IN  FAdd(FAdd(beta_abrown, beta_ashear), beta_aset)

\* q10**((t-20.)/10.)
RespirationFactor(t) == FPow(Q10, FDiv(FSub(t, Dec(20, 0)), Dec(10, 0)))

\* w in the middle regime, l being math.log10(dstar)
VelocityPolynomial(l) ==
    FPow(Dec(10, 0),
         FAdd(FSub(FSub(FAdd(Dec(-376715, -5), FMul(Dec(192944, -5), l)),
                        FMul(Dec(9815, -5), FPow2(l))),
                   FMul(Dec(575, -5), FPow3(l))),
              FMul(Dec(56, -5), FPow4(l))))

\* w without the regime of small dstar: C4 tells it from DimensionlessVelocity.
DimensionlessVelocityNoSmallRegime(dstar) ==
    IF FGt(dstar, Dec(5, 9)) THEN Dec(1000, 0)
    ELSE Strict1(VelocityPolynomial, FLog10(dstar))

\* w: the dimensionless settling velocity, in its three regimes
DimensionlessVelocity(dstar) ==
    IF FGt(dstar, Dec(5, 9)) THEN Dec(1000, 0)
    ELSE IF FLt(dstar, Dec(5, -2)) THEN FMul(FPow2(dstar), Dec(171, -6))
    ELSE Strict1(VelocityPolynomial, FLog10(dstar))

\* The settling velocity without the rising branch: C3 tells it from
\* SettlingVelocity.
SettlingVelocitySinkingOnly(delta_rho, w, kin_visc) ==
    FCbrt(FMul(FMul(FMul(G, kin_visc), w), delta_rho))

\* vs before the depth test: sinking for delta_rho > 0, rising otherwise
SettlingVelocity(delta_rho, w, kin_visc) ==
    IF FGt(delta_rho, Zero)
    THEN FCbrt(FMul(FMul(FMul(G, kin_visc), w), delta_rho))
    ELSE LET a_del_rho == FMul(delta_rho, Dec(-1, 0))
         IN  FMul(Dec(-1, 0), FCbrt(FMul(FMul(FMul(G, kin_visc), w), a_del_rho)))

\* Advance without the timestep: C9 tells it from Advance.
AdvanceNoTimestep(z, vs, dt) == FAdd(z, vs)

\* z + vs * particle.dt
Advance(z, vs, dt) == FAdd(z, FMul(vs, dt))

\* The depth test without the floor: C2 tells it from OutOfBounds.
OutOfBoundsSurfaceOnly(z0) == FLe(z0, SurfaceDepth)

\* z0 <= 0.6 or z0 >= 4000.
OutOfBounds(z0) == FLe(z0, SurfaceDepth) \/ FGe(z0, FloorDepth)

\* The local variables of Kooi, in the order the kernel assigns them; vs is
\* the settling velocity after the depth test, depth is particle.depth.
KooiLines ==
    << "aa", "mu_aa", "theta_pl", "t_bf", "r_tot", "rho_tot", "beta_a", "a_coll",
       "a_growth", "a_mort", "a_resp", "a_new", "dn", "delta_rho", "dstar", "w",
       "vs_init", "z0", "vs", "depth" >>

\* What the kernel assigns to the local variable n, on the particle p with
\* the timestep dt; l holds the local variables assigned before n.
KooiLine(n, p, dt, l) ==
    CASE n = "aa" -> AmbientAlgae(p.nd_phy, p.d_phy)
      [] n = "mu_aa" -> GrowthRate(p.tpp3, l.aa)
      [] n = "theta_pl" -> SurfaceArea(p.r_pl)
      [] n = "t_bf" -> BiofilmThickness(p.r_pl, p.a)
      [] n = "r_tot" -> FAdd(p.r_pl, l.t_bf)
      [] n = "rho_tot" -> TotalDensity(p.r_pl, p.rho_pl, l.t_bf)
      [] n = "beta_a" -> EncounterRate(p.temp, p.sw_visc, l.r_tot, p.vs)
      [] n = "a_coll" -> FDiv(FMul(l.beta_a, l.aa), l.theta_pl)
      [] n = "a_growth" -> FMul(l.mu_aa, p.a)
      [] n = "a_mort" -> FMul(M_a, p.a)
      [] n = "a_resp" -> FMul(FMul(RespirationFactor(p.temp), R20), p.a)
      [] n = "a_new" ->
            FAdd(p.a, FMul(FSub(FSub(FAdd(l.a_coll, l.a_growth), l.a_mort), l.a_resp), dt))
      [] n = "dn" -> FMul(Dec(2, 0), l.r_tot)
      [] n = "delta_rho" -> FDiv(FSub(l.rho_tot, p.density), p.density)
      [] n = "dstar" ->
            FDiv(FMul(FMul(FSub(l.rho_tot, p.density), G), FPow3(l.dn)),
                 FMul(p.density, FPow2(p.kin_visc)))
      [] n = "w" -> DimensionlessVelocity(l.dstar)
      [] n = "vs_init" -> SettlingVelocity(l.delta_rho, l.w, p.kin_visc)
      [] n = "z0" -> Advance(p.depth, l.vs_init, dt)
      [] n = "vs" -> IF OutOfBounds(l.z0) THEN Zero ELSE l.vs_init
      [] n = "depth" ->
            IF OutOfBounds(l.z0) THEN SurfaceDepth ELSE Advance(p.depth, l.vs, dt)

RECURSIVE KooiLinesUpTo(_, _, _)
\* The local variables after the first n assignments of the kernel.
KooiLinesUpTo(n, p, dt) ==
    IF n = 0 THEN [x \in {} |-> Zero]
    ELSE CHOOSE r \in {l @@ (KooiLines[n] :> KooiLine(KooiLines[n], p, dt, l)) :
                       l \in {KooiLinesUpTo(n - 1, p, dt)}} : TRUE

KooiAllLines(p, dt) == KooiLinesUpTo(Len(KooiLines), p, dt)

\* The local variables of one execution of Kooi on the particle p.
KooiLocals(p, dt) == Strict2(KooiAllLines, p, dt)

\* A store that keeps the settling velocity of the entry as the diagnostic
\* vs_init: C10 tells it from KooiStore.
KooiStoreCarried(p, l) ==
    [p EXCEPT !.a_coll = l.a_coll, !.a_growth = l.a_growth, !.a_resp = l.a_resp,
              !.a = l.a_new, !.vs_init = p.vs, !.depth = l.depth, !.vs = l.vs,
              !.rho_tot = l.rho_tot, !.r_tot = l.r_tot, !.delta_rho = l.delta_rho]

\* The particle with what an execution of Kooi with the locals l stores in it.
KooiStore(p, l) ==
    [p EXCEPT !.a_coll = l.a_coll, !.a_growth = l.a_growth, !.a_resp = l.a_resp,
              !.a = l.a_new, !.vs_init = l.vs_init, !.depth = l.depth, !.vs = l.vs,
              !.rho_tot = l.rho_tot, !.r_tot = l.r_tot, !.delta_rho = l.delta_rho]

\* The particle after one execution of Kooi.
KooiStep(p, dt) == Strict2(KooiStore, p, KooiLocals(p, dt))

(***************************************************************************)
(* The Profiles kernel: the fields at the particle's place, and the        *)
(* viscosities derived from them.  s is what the fields hold there.        *)
(***************************************************************************)
\* particle.sw_visc, from the temperature and the absolute salinity
SeawaterViscosity(temp, abs_salinity) ==
    LET mu_w == FAdd(Dec(42844, -9),
                     FDiv(Dec(1, 0),
                          FSub(FMul(Dec(157, -3), FPow2(FAdd(temp, Dec(64993, -3)))),
                               Dec(91296, -3))))
        A    == FSub(FAdd(Dec(1541, -3), FMul(Dec(1998, -5), temp)),
                     FMul(Dec(952, -7), FPow2(temp)))
        B    == FAdd(FSub(Dec(7974, -3), FMul(Dec(7561, -5), temp)),
                     FMul(Dec(4724, -7), FPow2(temp)))
        S_sw == FDiv(abs_salinity, Dec(1000, 0))
    IN  FMul(mu_w, FAdd(FAdd(Dec(1, 0), FMul(A, S_sw)), FMul(B, FPow2(S_sw))))

\* The particle with what Profiles stores in it, v being particle.sw_visc.
ProfilesStore(p, s) ==
    [p EXCEPT !.temp = s.cons_temperature, !.d_phy = s.d_phy, !.nd_phy = s.nd_phy,
              !.tpp3 = s.tpp3,
              !.sw_visc = SeawaterViscosity(s.cons_temperature, s.abs_salinity),
              !.kin_visc = FDiv(SeawaterViscosity(s.cons_temperature, s.abs_salinity),
                                p.density),
              !.w_adv = s.W]

\* The particle after one execution of Profiles.
ProfilesStep(p, s) == Strict2(ProfilesStore, p, s)

(***************************************************************************)
(* PolyTEOS10_bsq: the seawater density at the particle, which the model   *)
(* reads from the fields like the values it is computed from.              *)
(***************************************************************************)
DensityStore(p, s) == [p EXCEPT !.density = s.density]

DensityStep(p, s) == Strict2(DensityStore, p, s)

(***************************************************************************)
(* The run.  pset.execute runs the kernels PolyTEOS10_bsq, Profiles, Kooi  *)
(* on every particle, once per timestep and in this order, for the runtime.*)
(***************************************************************************)
VARIABLES
    particle,   \* the particle set: particle id -> the particle's variables
    pc,         \* particle id -> the kernel the particle executes next
    time,       \* particle id -> the number of timesteps the particle has completed
    dt,         \* the timestep of the run [s]
    fieldset,   \* the values the NEMO-MEDUSA fields may hold at a place and time
    fields      \* <<particle id, timestep>> -> the values the fields held where the
                \* particle was at the timestep, once PolyTEOS10_bsq has read them

vars == <<particle, pc, time, dt, fieldset, fields>>

\* The number of timesteps of a run (runtime / dt).
MaxSteps == 2

\* The timesteps a run may be configured with: secsdt = 60, and one and two
\* hours, with which a sinking particle passes the floor within MaxSteps.
Timesteps == {Dec(60, 0), Dec(3600, 0), Dec(7200, 0)}

\* The radii of the plastic a particle may be released with: the ends of r_pls.
Radii == {Dec(1, -6), Dec(1, -2)}

\* The densities of the plastic: of rho_pls the polyethylene, and a plastic as
\* dense as the seawater and one denser, for which Kooi has its sinking branch.
Densities == {Dec(920, 0), Dec(1025, 0), Dec(2200, 0)}

\* What the fields may hold where a particle is: the temperature, the diatom and
\* non-diatom phytoplankton, the primary productivity, the salinity, the vertical
\* current, and the seawater density PolyTEOS10_bsq derives from the fields.
FieldValues ==
    [cons_temperature : {Dec(15, 0)},
     d_phy            : {Dec(1, -1)},
     nd_phy           : {Dec(-2, -1), Dec(2, 0)},
     tpp3             : {Dec(-1, -1), Zero, Dec(3, -1)},
     abs_salinity     : {Dec(35, 0)},
     W                : {Zero},
     density          : {Dec(1025, 0)}]

\* A particle as ParticleSet.from_list constructs it: every variable of
\* plastic_particle is 0 but those given at the release.
Release(r_pl, rho_pl) ==
    [depth |-> SurfaceDepth, temp |-> Zero, density |-> Zero, tpp3 |-> Zero,
     d_phy |-> Zero, nd_phy |-> Zero, a |-> Zero, a_coll |-> Zero, a_growth |-> Zero,
     a_resp |-> Zero, kin_visc |-> Zero, sw_visc |-> Zero, vs |-> Zero,
     rho_tot |-> rho_pl, r_tot |-> r_pl, delta_rho |-> Zero, vs_init |-> Zero,
     r_pl |-> r_pl, rho_pl |-> rho_pl, w_adv |-> Zero]

Releases == {Release(r, rho) : r \in Radii, rho \in Densities}

InitRun(releases, timesteps, values) ==
    /\ particle \in [DOMAIN releases -> Releases]
    /\ \A id \in DOMAIN releases : particle[id] \in releases[id]
    /\ pc = [id \in DOMAIN releases |-> "PolyTEOS10_bsq"]
    /\ time = [id \in DOMAIN releases |-> 0]
    /\ dt \in timesteps
    /\ fieldset = values
    /\ fields = [key \in {} |-> Zero]

\* One particle, in fields that may hold any of FieldValues.
Init == InitRun([id \in {1} |-> Releases], Timesteps, FieldValues)

\* PolyTEOS10_bsq on particle id.  What the fields hold at the particle's
\* place at this timestep is any value of the fieldset; fields keeps it for
\* the other kernels of the timestep.
PolyTEOS10_bsq(id) ==
    /\ pc[id] = "PolyTEOS10_bsq"
    /\ time[id] < MaxSteps
    /\ \E s \in fieldset :
          /\ fields' = fields @@ (<<id, time[id]>> :> s)
          /\ particle' = [particle EXCEPT ![id] = DensityStep(@, s)]
    /\ pc' = [pc EXCEPT ![id] = "Profiles"]
    /\ UNCHANGED <<time, dt, fieldset>>

\* Profiles on particle id.
Profiles(id) ==
    /\ pc[id] = "Profiles"
    /\ particle' = [particle EXCEPT ![id] = ProfilesStep(@, fields[<<id, time[id]>>])]
    /\ pc' = [pc EXCEPT ![id] = "Kooi"]
    /\ UNCHANGED <<time, dt, fieldset, fields>>

\* Kooi on particle id with the settling velocity of the entry read from the
\* first particle of the set: C8 tells it from Kooi.
KooiCoupled(id) ==
    /\ pc[id] = "Kooi"
    /\ particle' = [particle EXCEPT ![id] = KooiStep([@ EXCEPT !.vs = particle[1].vs], dt)]
    /\ pc' = [pc EXCEPT ![id] = "PolyTEOS10_bsq"]
    /\ time' = [time EXCEPT ![id] = @ + 1]
    /\ UNCHANGED <<dt, fieldset, fields>>

\* Kooi on particle id, which ends the particle's timestep.
Kooi(id) ==
    /\ pc[id] = "Kooi"
    /\ particle' = [particle EXCEPT ![id] = KooiStep(@, dt)]
    /\ pc' = [pc EXCEPT ![id] = "PolyTEOS10_bsq"]
    /\ time' = [time EXCEPT ![id] = @ + 1]
    /\ UNCHANGED <<dt, fieldset, fields>>

\* pset.execute: the kernels PolyTEOS10_bsq + Profiles + Kooi, in this order,
\* on every particle at every timestep.
Next ==
    \/ \E id \in DOMAIN particle : PolyTEOS10_bsq(id)
    \/ \E id \in DOMAIN particle : Profiles(id)
    \/ \E id \in DOMAIN particle : Kooi(id)

Spec == Init /\ [][Next]_vars

(***************************************************************************)
(* An ensemble: two particles of the set, a large dense one and a small    *)
(* light one, whose kernels pset.execute may run in any order; the fields  *)
(* hold one of two values where a particle is.                             *)
(***************************************************************************)
EnsembleReleases ==
    (1 :> {Release(Dec(1, -2), Dec(2200, 0))}) @@ (2 :> {Release(Dec(1, -6), Dec(920, 0))})

EnsembleValues ==
    [cons_temperature : {Dec(15, 0)},
     d_phy            : {Dec(1, -1)},
     nd_phy           : {Dec(-2, -1), Dec(2, 0)},
     tpp3             : {Dec(3, -1)},
     abs_salinity     : {Dec(35, 0)},
     W                : {Zero},
     density          : {Dec(1025, 0)}]

InitEnsemble == InitRun(EnsembleReleases, {Dec(60, 0), Dec(3600, 0)}, EnsembleValues)

SpecEnsemble == InitEnsemble /\ [][Next]_vars

(***************************************************************************)
(* The properties of the run.                                              *)
(***************************************************************************)
\* Particle id has completed a timestep: Kooi has been executed on it.
Stepped(id) == pc[id] = "PolyTEOS10_bsq" /\ time[id] > 0

\* Particle id is at the entry of Kooi; EntryLocals(id) are then the local
\* variables of the execution that follows.
AtKooi(id) == pc[id] = "Kooi"

EntryLocals(id) == KooiLocals(particle[id], dt)

\* The step from the current state to the next is an execution of Kooi on id.
KooiExecuted(id) == pc[id] = "Kooi" /\ pc'[id] = "PolyTEOS10_bsq"

\* C1: after every execution of Kooi the stored depth of a particle lies in
\* the closed interval [0.6, 4000], in every state of a run from a release at 0.6.
C1_DepthInRange ==
    \A id \in DOMAIN particle :
        FGe(particle[id].depth, SurfaceDepth) /\ FLe(particle[id].depth, FloorDepth)

\* C2: an execution of Kooi with z0 = z + vs*dt at or below 0.6, or at or
\* above 4000, stores the depth 0.6 and the settling velocity 0; a particle
\* that would pass the floor is put at the surface, not at the floor.
C2_OutOfBoundsStep ==
    [][\A id \in DOMAIN particle :
           KooiExecuted(id) =>
               LET z0 == FAdd(particle[id].depth, FMul(particle'[id].vs_init, dt))
               IN  (FLe(z0, Dec(6, -1)) \/ FGe(z0, Dec(4000, 0))) =>
                       /\ particle'[id].depth = Dec(6, -1)
                       /\ particle'[id].vs = Zero]_vars

\* A particle that would have passed the floor in its last step (vs_init * dt
\* alone is 4000 m or more) is at 0.6 with the settling velocity 0.
C2_FloorViolationReached ==
    \E id \in DOMAIN particle :
        /\ Stepped(id)
        /\ FGe(FMul(particle[id].vs_init, dt), Dec(4000, 0))
        /\ particle[id].depth = Dec(6, -1)
        /\ particle[id].vs = Zero

\* C3, as stated: in every execution of Kooi with delta_rho > 0 the settling
\* velocity that results is > 0, and with delta_rho < 0 it is < 0.
C3_StoredSignFollowsDensity ==
    \A id \in DOMAIN particle :
        Stepped(id) =>
            /\ FGt(particle[id].delta_rho, Zero) => FGt(particle[id].vs, Zero)
            /\ FLt(particle[id].delta_rho, Zero) => FLt(particle[id].vs, Zero)

\* Pairs of dstar and delta_rho of one sign, in each regime of w and on the
\* bounds 0.05 and 5e9 between the regimes.
RegimeGrid ==
    { <<Dec(-6, 9), Dec(-9, -1)>>, <<Dec(-1, 0), Dec(-1, -1)>>, <<Dec(-1, -3), Dec(-1, -9)>>,
      <<Dec(1, -3), Dec(1, -9)>>, <<Dec(5, -2), Dec(1, -6)>>, <<Dec(1, 0), Dec(1, -3)>>,
      <<Dec(5, 9), Dec(1, 0)>>, <<Dec(6, 9), Dec(2, 0)>> }

\* C3, corrected: the settling velocity before the depth test, vs_init, is > 0
\* with delta_rho > 0 and < 0 with delta_rho < 0, in every regime of dstar
\* and on the bounds between the regimes; the stored vs is vs_init, or 0 where
\* the depth test has put the particle at 0.6.
C3_InitialSignFollowsDensity ==
    \A id \in DOMAIN particle :
        /\ Stepped(id) =>
              /\ FGt(particle[id].delta_rho, Zero) => FGt(particle[id].vs_init, Zero)
              /\ FLt(particle[id].delta_rho, Zero) => FLt(particle[id].vs_init, Zero)
              /\ particle[id].vs \in {particle[id].vs_init, Zero}
              /\ particle[id].vs # particle[id].vs_init => particle[id].depth = Dec(6, -1)
        /\ AtKooi(id) =>
              \A g \in RegimeGrid :
                  \A v \in {SettlingVelocity(g[2], DimensionlessVelocity(g[1]),
                                             particle[id].kin_visc)} :
                      IF FGt(g[2], Zero) THEN FGt(v, Zero) ELSE FLt(v, Zero)

\* A particle lighter than the seawater whose last step computed a rising
\* velocity and stored 0, the depth test having held it at 0.6.
C3_RisingParticleHeld ==
    \E id \in DOMAIN particle :
        /\ Stepped(id)
        /\ FLt(particle[id].delta_rho, Zero)
        /\ FLt(particle[id].vs_init, Zero)
        /\ particle[id].vs = Zero

\* C4: an execution of Kooi with delta_rho = 0 has dstar = 0, which selects
\* the regime of small dstar with w = 0, and its settling velocity is exactly
\* 0, both vs_init before the depth test and the stored vs.
C4_NeutralBuoyancy ==
    \A id \in DOMAIN particle :
        AtKooi(id) =>
            \A l \in {EntryLocals(id)} :
                FEq(l.delta_rho, Zero) =>
                    /\ l.dstar = Zero
                    /\ l.w = Zero
                    /\ l.vs_init = Zero
                    /\ l.vs = Zero

\* A particle as dense as the seawater has completed a step, with the
\* settling velocity 0.
C4_NeutralParticleStepped ==
    \E id \in DOMAIN particle :
        /\ Stepped(id)
        /\ particle[id].delta_rho = Zero
        /\ particle[id].vs_init = Zero
        /\ particle[id].vs = Zero

\* C5: in an execution of Kooi with aa = 0 the growth rate mu_aa is 0, and
\* the next a, vs and depth are defined values.
C5_ZeroAmbientAlgaeGuarded ==
    \A id \in DOMAIN particle :
        AtKooi(id) =>
            \A l \in {EntryLocals(id)} :
                l.aa = Zero =>
                    /\ l.mu_aa = Zero
                    /\ IsFin(l.a_new)
                    /\ IsFin(l.vs)
                    /\ IsFin(l.depth)

\* C6: in every execution of Kooi the aa and the mu_aa the kernel uses are >= 0.
C6_ClampedNonNegative ==
    \A id \in DOMAIN particle :
        AtKooi(id) =>
            \A l \in {EntryLocals(id)} : FGe(l.aa, Zero) /\ FGe(l.mu_aa, Zero)

\* C7: in every state of a run the recorded r_tot of a particle is >= its r_pl.
C7_RadiusNotBelowPlastic ==
    \A id \in DOMAIN particle : FGe(particle[id].r_tot, particle[id].r_pl)

\* C9: an execution of Kooi with z0 = z + vs*dt strictly between 0.6 and 4000
\* stores the depth z + vs*dt and stores the settling velocity as computed,
\* the value recorded as vs_init; the stored vs is another value than vs_init
\* only where z0 is at or below 0.6, or at or above 4000.
C9_InBoundsStep ==
    [][\A id \in DOMAIN particle :
           KooiExecuted(id) =>
               \A z0 \in {FAdd(particle[id].depth, FMul(particle'[id].vs_init, dt))} :
                   /\ (FGt(z0, Dec(6, -1)) /\ FLt(z0, Dec(4000, 0))) =>
                          /\ particle'[id].depth = z0
                          /\ particle'[id].vs = particle'[id].vs_init
                   /\ particle'[id].vs # particle'[id].vs_init =>
                          FLe(z0, Dec(6, -1)) \/ FGe(z0, Dec(4000, 0))]_vars

\* A sinking particle has moved below 0.6 in its last step, with the stored
\* velocity that of vs_init.
C9_SinkingParticleMoved ==
    \E id \in DOMAIN particle :
        /\ Stepped(id)
        /\ FGt(particle[id].depth, Dec(6, -1))
        /\ FGt(particle[id].vs, Zero)
        /\ particle[id].vs = particle[id].vs_init

\* The settling velocities a particle may hold from its previous step: 0
\* after a step out of bounds, else the vs_init of that step, or any other.
PreviousVelocities(p) == {Zero, p.vs_init, Dec(1, 0), Dec(-1, -3)}

\* C10: two particles at the entry of Kooi that differ only in the settling
\* velocity held from the previous step get the same vs_init, the same depth
\* test (the same stored vs and depth) and the same rho_tot, r_tot and
\* delta_rho; after the step they differ at most in a_coll and in a.
C10_MemorylessRegime ==
    \A id \in DOMAIN particle :
        AtKooi(id) =>
            \A v \in PreviousVelocities(particle[id]) :
                \A q \in {KooiStep(particle[id], dt)} :
                    \A r \in {KooiStep([particle[id] EXCEPT !.vs = v], dt)} :
                        r = [q EXCEPT !.a_coll = r.a_coll, !.a = r.a]

\* A particle enters Kooi with a settling velocity other than 0, and the
\* particle that differs from it in this velocity only, holding 0, gets another a.
C10_VelocityFeedsCollision ==
    \E id \in DOMAIN particle :
        /\ AtKooi(id)
        /\ IsFin(particle[id].vs)
        /\ particle[id].vs # Zero
        /\ KooiStep([particle[id] EXCEPT !.vs = Zero], dt).a # KooiStep(particle[id], dt).a
        /\ KooiStep([particle[id] EXCEPT !.vs = Zero], dt).depth
               = KooiStep(particle[id], dt).depth

\* One timestep of a particle on its own: the three kernels in their order,
\* s being what the fields hold where the particle is.
OneTimestep(p, s, h) == KooiStep(ProfilesStep(DensityStep(p, s), s), h)

RECURSIVE Alone(_, _)
\* The particle id after n timesteps, had it been run alone from its release
\* with the values the fields held where it was.
Alone(id, n) ==
    IF n = 0 THEN Release(particle[id].r_pl, particle[id].rho_pl)
    ELSE CHOOSE q \in {OneTimestep(p, fields[<<id, n - 1>>], dt) : p \in {Alone(id, n - 1)}} :
             TRUE

\* The particle id where it is in its current timestep, had it been run alone.
AloneNow(id) ==
    CASE pc[id] = "PolyTEOS10_bsq" -> Alone(id, time[id])
      [] pc[id] = "Profiles" -> DensityStep(Alone(id, time[id]), fields[<<id, time[id]>>])
      [] pc[id] = "Kooi" ->
            ProfilesStep(DensityStep(Alone(id, time[id]), fields[<<id, time[id]>>]),
                         fields[<<id, time[id]>>])

\* C8: the kernels of a particle read and write the variables of this
\* particle only: in whatever order the kernels of the particles of an
\* ensemble are run, every particle is in the state in which it would be had
\* it been run alone.
C8_ParticlesIndependent == \A id \in DOMAIN particle : particle[id] = AloneNow(id)

\* Both particles have completed a timestep, the first with a settling
\* velocity other than 0, and the second is a timestep behind the first.
C8_ParticlesInterleaved ==
    /\ DOMAIN particle = {1, 2}
    /\ time[1] = 2 /\ pc[1] = "PolyTEOS10_bsq"
    /\ time[2] = 1 /\ pc[2] = "PolyTEOS10_bsq"
    /\ particle[1].vs # Zero
    /\ particle[2].a # Zero

\* C11: a particle that enters Kooi at the depth 0.6 leaves this depth only
\* in a step with delta_rho > 0 and z0 < 4000; in every step with
\* delta_rho <= 0 it stays at 0.6 with the stored settling velocity 0.
C11_SurfacePinning ==
    \A id \in DOMAIN particle :
        (AtKooi(id) /\ particle[id].depth = Dec(6, -1)) =>
            \A l \in {EntryLocals(id)} :
                /\ l.depth # Dec(6, -1) =>
                       FGt(l.delta_rho, Zero) /\ FLt(l.z0, Dec(4000, 0))
                /\ FLe(l.delta_rho, Zero) =>
                       l.depth = Dec(6, -1) /\ l.vs = Zero

\* The rate at which attached algae are lost: m_a + q10**((t-20.)/10.)*r20.
LossRate(t) == FAdd(M_a, FMul(RespirationFactor(t), R20))

\* C12: an execution of Kooi that enters with a >= 0, aa >= 0, mu_aa >= 0,
\* beta_a >= 0 and dt * (m_a + q10**((t-20.)/10.)*r20) <= 1 gives the next
\* a >= 0; so the a of a particle is >= 0 in every state of a run from a = 0.
C12_AttachedAlgaeNonNegative ==
    \A id \in DOMAIN particle :
        /\ AtKooi(id) =>
              \A l \in {EntryLocals(id)} :
                  ( /\ FGe(particle[id].a, Zero)
                    /\ FGe(l.aa, Zero)
                    /\ FGe(l.mu_aa, Zero)
                    /\ FGe(l.beta_a, Zero)
                    /\ FLe(FMul(dt, LossRate(particle[id].temp)), Dec(1, 0)) ) =>
                      FGe(l.a_new, Zero)
        /\ FGe(particle[id].a, Zero)
====
